---- MODULE Spec2Model ----
(***************************************************************************)
(* Model of src/components/news-summary-browser.mjs: the NewsSummaryBrowser *)
(* custom element (paging through a commit log, lazy prefetch of older     *)
(* history, display of a commit's index.html) and the module's git helper   *)
(* functions.  The git library and the virtual filesystem are the           *)
(* environment: every call to them settles later, successfully or by        *)
(* throwing, in any order.                                                  *)
(*                                                                          *)
(* Conventions.  The remote history is the chain of commits 1..RemoteLen,   *)
(* newest first; a commit's oid is its position in that chain and the       *)
(* index.html of commit k is represented by k.  currentIndex is 0-based as  *)
(* in the source, so the source's log[i] is log[i + 1] here.                *)
(***************************************************************************)
EXTENDS Integers, Sequences, FiniteSets, Bags, TLC

\* ---- bounds ----
\* commits on the remote branch
RemoteLen == 3
\* largest initial-depth, fetch-step and fetch-threshold attribute tried
MaxInitialDepth == 3
MaxFetchStep == 2
MaxThreshold == 1
\* asynchronous operations (prefetches, checkouts, reads) that clicks may
\* leave pending at once
MaxPending == 2

VARIABLES
  initialDepth, fetchThreshold, fetchStep, hasContent,
  currentIndex, fetchFailed, isFetching, loadingMore, log,
  connected, attached, inDoc,
  backDisabled, nextDisabled, status, content,
  init, prefetches, checkouts, reads,
  repoDepth, workdir,
  errors, ev

(***************************************************************************)
(* initialDepth, fetchThreshold, fetchStep: the element's numeric           *)
(*   attributes (constructor, attributeChangedCallback).                    *)
(* hasContent: the shadow root exists and holds #content.                   *)
(* currentIndex, fetchFailed, isFetching, loadingMore, log: the fields of   *)
(*   the same names.                                                        *)
(* connected: #connected.  attached: the click handlers are attached.       *)
(*   inDoc: the element is in a document.                                   *)
(* backDisabled, nextDisabled: backBtn.disabled, nextBtn.disabled.          *)
(* status, content: the text of #status and the content of #content.        *)
(* init: where initializeRepo stands; depth is the depth argument of the    *)
(*   git.clone or git.fetch it awaits.                                      *)
(* prefetches: the prefetchMore calls that have not returned to showOlder.  *)
(* checkouts: the oids whose checkoutCommit a displayCommit awaits.         *)
(* reads: the number of displayCommit calls awaiting readIndexFile.         *)
(* repoDepth: the commits held in /repo.  workdir: the commit checked out   *)
(*   in /repo (0: none).                                                    *)
(* errors: the async functions that ended rejected.                         *)
(* ev: the handler, continuation or completion that ran last.               *)
(***************************************************************************)

\* fixed once the element is constructed: its attributes, and whether its
\* shadow root holds #content
attrs == <<initialDepth, fetchThreshold, fetchStep, hasContent>>
flags == <<fetchFailed, isFetching, loadingMore>>
lifecycle == <<connected, attached, inDoc>>
buttons == <<backDisabled, nextDisabled>>
displays == <<checkouts, reads>>
vars == <<attrs, currentIndex, flags, log, lifecycle, buttons, status,
          content, init, prefetches, displays, repoDepth, workdir, errors, ev>>

Min(a, b) == IF a <= b THEN a ELSE b
Max(a, b) == IF a >= b THEN a ELSE b

\* ---- the git library (environment) ----
\* git.log({depth}) on a repository holding the newest `have` commits
gitLog(depth, have) == [i \in 1..Min(depth, have) |-> i]
\* number of commits held locally after a successful clone/fetch with {depth}
gitFetch(depth, have) == Max(have, Min(depth, RemoteLen))

\* ---- rendered content ----
InitialContent == [kind |-> "template", oid |-> 0]
Html(oid) == [kind |-> "html", oid |-> oid]
NoIndexHtml == [kind |-> "No index.html found in commit", oid |-> 0]

\* the handler, continuation or completion that ran last
Event(op) == [op |-> op]

RemoveAt(s, i) == [j \in 1..(Len(s) - 1) |-> IF j < i THEN s[j] ELSE s[j + 1]]

Pending == BagCardinality(checkouts) + reads + Len(prefetches)
\* a settled prefetchMore whose caller (showOlder) has not resumed yet; the
\* continuation is a microtask, it runs before any other event is handled
Resuming == \E i \in 1..Len(prefetches) : prefetches[i].pc = "settled"

\* ---- updateUI ----
\* faulty variant: Back is disabled one commit too late
backBtnDisabled_offByOne(ci, lg, ff, lm) ==
  ci >= Len(lg) /\ (ff \/ ~lm)

backBtnDisabled(ci, lg, ff, lm) == ci >= Len(lg) - 1 /\ (ff \/ ~lm)
nextBtnDisabled(ci) == ci <= 0

\* ci, lg, ff, lm: this.currentIndex, this.log, this.fetchFailed and
\* this.loadingMore when updateUI runs
updateUI(ci, lg, ff, lm) ==
  /\ backDisabled' = backBtnDisabled(ci, lg, ff, lm)
  /\ nextDisabled' = nextBtnDisabled(ci)

\* ---- displayCommit(index), up to its first await ----
\* cur is this.currentIndex and lg is this.log when displayCommit is called
displayCommit(index, cur, lg) ==
  IF index < 0 \/ index >= Len(lg)
  THEN /\ currentIndex' = cur
       /\ checkouts' = checkouts
  ELSE /\ currentIndex' = index
       /\ checkouts' = checkouts (+) SetToBag({lg[index + 1]})

\* The markup of the buttons is not part of the component, so they start
\* enabled or disabled.  fetch-threshold 0 is stored by
\* attributeChangedCallback (the constructor alone turns 0 into 2).
Init ==
  /\ initialDepth \in 1..MaxInitialDepth
  /\ fetchThreshold \in 0..MaxThreshold
  /\ fetchStep \in 1..MaxFetchStep
  /\ hasContent \in BOOLEAN
  /\ currentIndex = 0
  /\ fetchFailed = FALSE
  /\ isFetching = FALSE
  /\ loadingMore = FALSE
  /\ log = <<>>
  /\ connected = FALSE
  /\ attached = FALSE
  /\ inDoc = FALSE
  /\ backDisabled \in BOOLEAN
  /\ nextDisabled \in BOOLEAN
  /\ status = "template"
  /\ content = InitialContent
  /\ init = [pc |-> "none", depth |-> 0]
  /\ prefetches = <<>>
  /\ checkouts = EmptyBag
  /\ reads = 0
  /\ repoDepth = 0
  /\ workdir = 0
  /\ errors = {}
  /\ ev = Event("constructor")

\* ---- lifecycle callbacks ----
connectBody ==
  IF connected
  THEN UNCHANGED <<connected, attached, init>>
  ELSE /\ connected' = TRUE
       /\ IF hasContent
          THEN /\ attached' = TRUE
               /\ init' = [init EXCEPT !.pc = "mkdir"]
          ELSE UNCHANGED <<attached, init>>

connectedCallback ==
  /\ ~Resuming
  /\ ~inDoc
  /\ inDoc' = TRUE
  /\ connectBody
  /\ ev' = Event("connectedCallback")
  /\ UNCHANGED <<attrs, currentIndex, flags, log, buttons, status, content,
                 prefetches, displays, repoDepth, workdir, errors>>

adoptedCallback ==
  /\ ~Resuming
  /\ connectBody
  /\ ev' = Event("adoptedCallback")
  /\ UNCHANGED <<attrs, currentIndex, flags, log, inDoc, buttons, status, content,
                 prefetches, displays, repoDepth, workdir, errors>>

disconnectedCallback ==
  /\ ~Resuming
  /\ inDoc
  /\ inDoc' = FALSE
  /\ attached' = FALSE
  /\ ev' = Event("disconnectedCallback")
  /\ UNCHANGED <<attrs, currentIndex, flags, log, connected, buttons, status, content,
                 init, prefetches, displays, repoDepth, workdir, errors>>

\* ---- cloneOrFetchRepo, as awaited by initializeRepo ----
mkdirSettles ==
  /\ ~Resuming
  /\ init.pc = "mkdir"
  /\ status' = "Loading commits..."
  /\ init' = [pc |-> "clone", depth |-> initialDepth]
  /\ ev' = Event("mkdir")
  /\ UNCHANGED <<attrs, currentIndex, flags, log, lifecycle, buttons, content,
                 prefetches, displays, repoDepth, workdir, errors>>

cloneResolves ==
  /\ ~Resuming
  /\ init.pc = "clone"
  /\ repoDepth' = gitFetch(init.depth, repoDepth)
  /\ init' = [pc |-> "checkout", depth |-> 0]
  /\ ev' = Event("cloneResolves")
  /\ UNCHANGED <<attrs, currentIndex, flags, log, lifecycle, buttons, status, content,
                 prefetches, displays, workdir, errors>>

\* the catch block of cloneOrFetchRepo: git.fetch with the same arguments
cloneOrFetchRepoCatch == [pc |-> "fetch", depth |-> init.depth]

cloneThrows ==
  /\ ~Resuming
  /\ init.pc = "clone"
  /\ init' = cloneOrFetchRepoCatch
  /\ ev' = Event("cloneThrows")
  /\ UNCHANGED <<attrs, currentIndex, flags, log, lifecycle, buttons, status, content,
                 prefetches, displays, repoDepth, workdir, errors>>

fallbackFetchResolves ==
  /\ ~Resuming
  /\ init.pc = "fetch"
  /\ repoDepth' = gitFetch(init.depth, repoDepth)
  /\ init' = [pc |-> "checkout", depth |-> 0]
  /\ ev' = Event("fallbackFetchResolves")
  /\ UNCHANGED <<attrs, currentIndex, flags, log, lifecycle, buttons, status, content,
                 prefetches, displays, workdir, errors>>

\* faulty variant: the error is swallowed and initializeRepo carries on
initializeRepoThrows_swallowed ==
  /\ init' = [pc |-> "checkout", depth |-> 0]
  /\ errors' = errors

\* an await in initializeRepo throws: the rejection leaves initializeRepo
initializeRepoThrows ==
  /\ init' = [pc |-> "failed", depth |-> 0]
  /\ errors' = errors \cup {"initializeRepo"}

fallbackFetchThrows ==
  /\ ~Resuming
  /\ init.pc = "fetch"
  /\ initializeRepoThrows
  /\ ev' = Event("fallbackFetchThrows")
  /\ UNCHANGED <<attrs, currentIndex, flags, log, lifecycle, buttons, status, content,
                 prefetches, displays, repoDepth, workdir>>

\* ---- initializeRepo after cloneOrFetchRepo ----
initCheckoutResolves ==
  /\ ~Resuming
  /\ init.pc = "checkout"
  /\ workdir' = 1
  /\ init' = [init EXCEPT !.pc = "getCommits"]
  /\ ev' = Event("initCheckoutResolves")
  /\ UNCHANGED <<attrs, currentIndex, flags, log, lifecycle, buttons, status, content,
                 prefetches, displays, repoDepth, errors>>

initCheckoutThrows ==
  /\ ~Resuming
  /\ init.pc = "checkout"
  /\ initializeRepoThrows
  /\ ev' = Event("initCheckoutThrows")
  /\ UNCHANGED <<attrs, currentIndex, flags, log, lifecycle, buttons, status, content,
                 prefetches, displays, repoDepth, workdir>>

getCommitsResolves ==
  /\ ~Resuming
  /\ init.pc = "getCommits"
  /\ repoDepth >= 1
  /\ log' = gitLog(initialDepth, repoDepth)
  /\ status' = ""
  /\ displayCommit(0, currentIndex, log')
  /\ init' = [init EXCEPT !.pc = "displayCommit"]
  /\ ev' = Event("getCommitsResolves")
  /\ UNCHANGED <<attrs, flags, lifecycle, buttons, content,
                 prefetches, reads, repoDepth, workdir, errors>>

getCommitsThrows ==
  /\ ~Resuming
  /\ init.pc = "getCommits"
  /\ initializeRepoThrows
  /\ ev' = Event("getCommitsThrows")
  /\ UNCHANGED <<attrs, currentIndex, flags, log, lifecycle, buttons, status, content,
                 prefetches, displays, repoDepth, workdir>>

\* ---- showOlder / prefetchMore ----
remaining == Len(log) - currentIndex - 1

\* faulty variant: the threshold comparison is strict
showOlderWantsPrefetch_strict == remaining < fetchThreshold /\ ~fetchFailed /\ ~loadingMore

\* the condition under which showOlder calls prefetchMore
showOlderWantsPrefetch == remaining <= fetchThreshold /\ ~fetchFailed /\ ~loadingMore

\* the early return of prefetchMore
prefetchMoreReturnsEarly == isFetching \/ fetchFailed \/ loadingMore

\* faulty variant: the step is not added to the depth
targetDepth_noStep == Len(log)

\* prefetchMore's target depth, read when the prefetch starts
targetDepth == Len(log) + fetchStep

\* faulty variant: the bound check is off by one
showOlderNext_offByOne(ci, lg) == IF ci < Len(lg) THEN ci + 1 ELSE -1

\* the index showOlder displays after its optional prefetch, or -1 for none
showOlderNext(ci, lg) == IF ci < Len(lg) - 1 THEN ci + 1 ELSE -1

showOlderTail ==
  LET n == showOlderNext(currentIndex, log)
  IN  IF n >= 0
      THEN displayCommit(n, n, log)
      ELSE UNCHANGED <<currentIndex, checkouts>>

\* faulty variant: the in-progress flags are not set
prefetchMoreStart_noFlags ==
  /\ isFetching' = isFetching
  /\ loadingMore' = loadingMore
  /\ status' = "Fetching more commits..."
  /\ prefetches' = Append(prefetches, [pc |-> "fetch", targetDepth |-> targetDepth])

\* prefetchMore from its guard to its first await (git.fetch)
prefetchMoreStart ==
  /\ isFetching' = TRUE
  /\ loadingMore' = TRUE
  /\ status' = "Fetching more commits..."
  /\ prefetches' = Append(prefetches, [pc |-> "fetch", targetDepth |-> targetDepth])

\* faulty variant: neither showOlder nor prefetchMore looks at fetchFailed
showOlderStartsPrefetch_ignoresFailure ==
  remaining <= fetchThreshold /\ ~loadingMore /\ ~isFetching

\* showOlder calls prefetchMore and prefetchMore goes on to git.fetch
showOlderStartsPrefetch == showOlderWantsPrefetch /\ ~prefetchMoreReturnsEarly

showOlder ==
  /\ ~Resuming
  /\ attached /\ ~backDisabled
  /\ Pending < MaxPending
  /\ IF showOlderStartsPrefetch
     THEN /\ prefetchMoreStart
          /\ UNCHANGED <<currentIndex, checkouts>>
     ELSE /\ showOlderTail
          /\ UNCHANGED <<isFetching, loadingMore, status, prefetches>>
  /\ ev' = Event("showOlder")
  /\ UNCHANGED <<attrs, fetchFailed, log, lifecycle, buttons, content, init,
                 reads, repoDepth, workdir, errors>>

prefetchFetchResolves(i) ==
  /\ ~Resuming
  /\ prefetches[i].pc = "fetch"
  /\ repoDepth' = gitFetch(prefetches[i].targetDepth, repoDepth)
  /\ prefetches' = [prefetches EXCEPT ![i].pc = "log"]
  /\ ev' = Event("prefetchFetchResolves")
  /\ UNCHANGED <<attrs, currentIndex, flags, log, lifecycle, buttons, status, content,
                 init, displays, workdir, errors>>

\* faulty variant: the finally block leaves the two flags as they are
prefetchMoreFinally_keepsFlags(i) ==
  /\ isFetching' = isFetching
  /\ loadingMore' = loadingMore
  /\ status' = IF fetchFailed' THEN "Reached oldest commit" ELSE ""
  /\ updateUI(currentIndex, log', fetchFailed', loadingMore')
  /\ prefetches' = [prefetches EXCEPT ![i].pc = "settled"]

\* the finally block of prefetchMore
prefetchMoreFinally(i) ==
  /\ isFetching' = FALSE
  /\ loadingMore' = FALSE
  /\ status' = IF fetchFailed' THEN "Reached oldest commit" ELSE ""
  /\ updateUI(currentIndex, log', fetchFailed', loadingMore')
  /\ prefetches' = [prefetches EXCEPT ![i].pc = "settled"]

\* faulty variant: the catch block forgets to set fetchFailed
prefetchMoreCatch_noFlag ==
  /\ fetchFailed' = fetchFailed
  /\ log' = log

\* the catch block of prefetchMore
prefetchMoreCatch ==
  /\ fetchFailed' = TRUE
  /\ log' = log

prefetchFetchThrows(i) ==
  /\ ~Resuming
  /\ prefetches[i].pc = "fetch"
  /\ prefetchMoreCatch
  /\ prefetchMoreFinally(i)
  /\ ev' = Event("prefetchFetchThrows")
  /\ UNCHANGED <<attrs, currentIndex, lifecycle, content, init, displays,
                 repoDepth, workdir, errors>>

prefetchLogResolves(i) ==
  /\ ~Resuming
  /\ prefetches[i].pc = "log"
  /\ repoDepth >= 1
  /\ log' = gitLog(prefetches[i].targetDepth, repoDepth)
  /\ fetchFailed' = FALSE
  /\ prefetchMoreFinally(i)
  /\ ev' = Event("prefetchLogResolves")
  /\ UNCHANGED <<attrs, currentIndex, lifecycle, content, init, displays,
                 repoDepth, workdir, errors>>

prefetchLogThrows(i) ==
  /\ ~Resuming
  /\ prefetches[i].pc = "log"
  /\ prefetchMoreCatch
  /\ prefetchMoreFinally(i)
  /\ ev' = Event("prefetchLogThrows")
  /\ UNCHANGED <<attrs, currentIndex, lifecycle, content, init, displays,
                 repoDepth, workdir, errors>>

\* showOlder continues after `await this.prefetchMore()`
showOlderResumes(i) ==
  /\ prefetches[i].pc = "settled"
  /\ prefetches' = RemoveAt(prefetches, i)
  /\ showOlderTail
  /\ ev' = Event("showOlderResumes")
  /\ UNCHANGED <<attrs, flags, log, lifecycle, buttons, status, content, init,
                 reads, repoDepth, workdir, errors>>

\* ---- showNewer ----
showNewer ==
  /\ ~Resuming
  /\ attached /\ ~nextDisabled
  /\ Pending < MaxPending
  /\ IF currentIndex > 0
     THEN displayCommit(currentIndex - 1, currentIndex - 1, log)
     ELSE UNCHANGED <<currentIndex, checkouts>>
  /\ ev' = Event("showNewer")
  /\ UNCHANGED <<attrs, flags, log, lifecycle, buttons, status, content, init,
                 prefetches, reads, repoDepth, workdir, errors>>

\* ---- displayCommit after its awaits ----
checkoutCommitResolves(oid) ==
  /\ ~Resuming
  /\ BagIn(oid, checkouts)
  /\ checkouts' = checkouts (-) SetToBag({oid})
  /\ workdir' = oid
  /\ reads' = reads + 1
  /\ ev' = Event("checkoutCommitResolves")
  /\ UNCHANGED <<attrs, currentIndex, flags, log, lifecycle, buttons, status, content,
                 init, prefetches, repoDepth, errors>>

checkoutCommitThrows(oid) ==
  /\ ~Resuming
  /\ BagIn(oid, checkouts)
  /\ checkouts' = checkouts (-) SetToBag({oid})
  /\ errors' = errors \cup {"displayCommit"}
  /\ ev' = Event("checkoutCommitThrows")
  /\ UNCHANGED <<attrs, currentIndex, flags, log, lifecycle, buttons, status, content,
                 init, prefetches, reads, repoDepth, workdir>>

\* readIndexFile returns the index.html of whatever is checked out
readIndexFile == Html(workdir)

readIndexFileResolves ==
  /\ ~Resuming
  /\ reads > 0
  /\ reads' = reads - 1
  /\ content' = readIndexFile
  /\ updateUI(currentIndex, log, fetchFailed, loadingMore)
  /\ ev' = Event("readIndexFileResolves")
  /\ UNCHANGED <<attrs, currentIndex, flags, log, lifecycle, status,
                 init, prefetches, checkouts, repoDepth, workdir, errors>>

\* faulty variant: the catch block leaves the previous content in place
displayCommitCatch_keepsContent == content

\* the catch block of displayCommit
displayCommitCatch == NoIndexHtml

readIndexFileThrows ==
  /\ ~Resuming
  /\ reads > 0
  /\ reads' = reads - 1
  /\ content' = displayCommitCatch
  /\ updateUI(currentIndex, log, fetchFailed, loadingMore)
  /\ ev' = Event("readIndexFileThrows")
  /\ UNCHANGED <<attrs, currentIndex, flags, log, lifecycle, status,
                 init, prefetches, checkouts, repoDepth, workdir, errors>>

Next ==
  \/ connectedCallback
  \/ mkdirSettles
  \/ cloneResolves
  \/ cloneThrows
  \/ fallbackFetchResolves
  \/ fallbackFetchThrows
  \/ initCheckoutResolves
  \/ initCheckoutThrows
  \/ getCommitsResolves
  \/ getCommitsThrows
  \/ showOlder
  \/ showNewer
  \/ \E i \in 1..Len(prefetches) : prefetchFetchResolves(i)
  \/ \E i \in 1..Len(prefetches) : prefetchFetchThrows(i)
  \/ \E i \in 1..Len(prefetches) : prefetchLogResolves(i)
  \/ \E i \in 1..Len(prefetches) : prefetchLogThrows(i)
  \/ \E i \in 1..Len(prefetches) : showOlderResumes(i)
  \/ \E oid \in 1..RemoteLen : checkoutCommitResolves(oid)
  \/ \E oid \in 1..RemoteLen : checkoutCommitThrows(oid)
  \/ readIndexFileResolves
  \/ readIndexFileThrows

Spec == Init /\ [][Next]_vars

\* the same element when every git and filesystem call succeeds
NextSucceed ==
  \/ connectedCallback
  \/ mkdirSettles
  \/ cloneResolves
  \/ initCheckoutResolves
  \/ getCommitsResolves
  \/ showOlder
  \/ showNewer
  \/ \E i \in 1..Len(prefetches) : prefetchFetchResolves(i)
  \/ \E i \in 1..Len(prefetches) : prefetchLogResolves(i)
  \/ \E i \in 1..Len(prefetches) : showOlderResumes(i)
  \/ \E oid \in 1..RemoteLen : checkoutCommitResolves(oid)
  \/ readIndexFileResolves

SpecSucceed == Init /\ [][NextSucceed]_vars

\* the lifecycle callbacks around initializeRepo, without clicks
NextLifecycle ==
  \/ connectedCallback
  \/ adoptedCallback
  \/ disconnectedCallback
  \/ mkdirSettles
  \/ cloneResolves
  \/ cloneThrows
  \/ fallbackFetchResolves
  \/ fallbackFetchThrows
  \/ initCheckoutResolves
  \/ initCheckoutThrows
  \/ getCommitsResolves
  \/ getCommitsThrows
  \/ \E oid \in 1..RemoteLen : checkoutCommitResolves(oid)
  \/ \E oid \in 1..RemoteLen : checkoutCommitThrows(oid)
  \/ readIndexFileResolves
  \/ readIndexFileThrows

SpecLifecycle == Init /\ [][NextLifecycle]_vars

\* the git.fetch or git.log call awaited by a prefetch settles, either way
gitCallSettles ==
  \E i \in 1..Len(prefetches) :
    \/ prefetchFetchResolves(i)
    \/ prefetchFetchThrows(i)
    \/ prefetchLogResolves(i)
    \/ prefetchLogThrows(i)

\* the element when every git call awaited by prefetchMore eventually settles
SpecFair == Spec /\ WF_vars(gitCallSettles)

\* ---- vocabulary of the properties ----
\* initializeRepo has loaded the log and started displayCommit(0)
Initialised == init.pc = "displayCommit"
\* no asynchronous operation is pending
Quiescent == prefetches = <<>> /\ checkouts = EmptyBag /\ reads = 0
\* prefetches awaiting git.fetch or git.log
InFlight == {i \in 1..Len(prefetches) : prefetches[i].pc \in {"fetch", "log"}}
\* this step is a showOlder call that starts a prefetch (issues git.fetch)
StartsPrefetch ==
  /\ Len(prefetches') = Len(prefetches) + 1
  /\ prefetches'[Len(prefetches')] = [pc |-> "fetch", targetDepth |-> Len(log) + fetchStep]
\* this step is showOlder after its optional prefetch has settled
AfterOptionalPrefetch ==
  \/ ev'.op = "showOlderResumes"
  \/ ev'.op = "showOlder" /\ Len(prefetches') = Len(prefetches)
\* this step starts the display (checkout) of log[i], i 0-based
Displays(i) ==
  /\ i >= 0 /\ i < Len(log')
  /\ checkouts' = checkouts (+) SetToBag({log'[i + 1]})

\* C1: showOlder starts a prefetch (git.fetch) if and only if, when it is
\* called, log.length - currentIndex - 1 <= fetchThreshold, fetchFailed is
\* false and loadingMore is false; otherwise it issues no fetch.
C1_PrefetchIffThreshold ==
  [][ev'.op = "showOlder" =>
       LET cond == /\ Len(log) - currentIndex - 1 <= fetchThreshold
                   /\ ~fetchFailed
                   /\ ~loadingMore
       IN  /\ StartsPrefetch <=> cond
           /\ ~cond => prefetches' = prefetches]_vars

C1_Witness ==
  /\ ev.op = "showOlder"
  /\ Initialised
  /\ Len(prefetches) = 1 /\ prefetches[1] = [pc |-> "fetch", targetDepth |-> Len(log) + fetchStep]
  /\ Len(log) - currentIndex - 1 = fetchThreshold

\* C2: once its optional prefetch has settled, showOlder increases
\* currentIndex by exactly one and displays that commit when
\* currentIndex < log.length - 1, and otherwise leaves currentIndex unchanged
\* and performs no checkout.
C2_ShowOlderAdvances ==
  [][AfterOptionalPrefetch =>
       IF currentIndex < Len(log) - 1
       THEN currentIndex' = currentIndex + 1 /\ Displays(currentIndex + 1)
       ELSE currentIndex' = currentIndex /\ checkouts' = checkouts]_vars

C2_Witness ==
  /\ ev.op = "showOlderResumes"
  /\ Initialised
  /\ currentIndex >= 1 /\ currentIndex < Len(log)
  /\ BagIn(log[currentIndex + 1], checkouts)

\* C3: showNewer decreases currentIndex by exactly one and displays that
\* commit when currentIndex > 0; when currentIndex is 0 it performs no checkout
\* and leaves currentIndex, log, fetchFailed, isFetching and loadingMore
\* unchanged. showNewer never starts a fetch.
C3_ShowNewer ==
  [][ev'.op = "showNewer" =>
       /\ prefetches' = prefetches
       /\ IF currentIndex > 0
          THEN currentIndex' = currentIndex - 1 /\ Displays(currentIndex - 1)
          ELSE UNCHANGED <<currentIndex, checkouts, reads, log, flags>>]_vars

\* C4: once all pending asynchronous operations have completed, the content
\* shown is the index.html read from the checkout of log[currentIndex]
\* (checkouts and reads succeed: SpecSucceed).
C4_ContentIsCurrentCommit ==
  (Initialised /\ Quiescent /\ currentIndex < Len(log))
    => content = Html(log[currentIndex + 1])

\* C5: whenever the current commit is the oldest loaded one, no fetch has
\* failed and the remote still has older commits, the Back button is not left
\* disabled while no fetch is in flight.
C5_BackStaysEnabled ==
  (/\ Initialised /\ Quiescent /\ errors = {}
   /\ currentIndex = Len(log) - 1
   /\ ~fetchFailed
   /\ Len(log) < RemoteLen)
    => ~backDisabled

C7_PrefetchFailure ==
  [][ev'.op \in {"prefetchFetchThrows", "prefetchLogThrows"} =>
       /\ fetchFailed'
       /\ log' = log
       /\ currentIndex' = currentIndex
       /\ status' = "Reached oldest commit"
       /\ errors' = errors
       /\ \E i \in 1..Len(prefetches') : prefetches'[i].pc = "settled"]_vars

C7_Witness ==
  /\ ev.op = "prefetchLogThrows"
  /\ Initialised
  /\ fetchFailed /\ status = "Reached oldest commit"
  /\ Len(log) >= 2

\* C8: displayCommit sets currentIndex to the index of the commit it checks
\* out, and when reading index.html then fails it shows the placeholder
\* "No index.html found in commit", still runs updateUI, and lets no error
\* out.
C8_ReadFailure ==
  [][/\ BagCardinality(checkouts') > BagCardinality(checkouts) => Displays(currentIndex')
     /\ ev'.op = "readIndexFileThrows" =>
          /\ content' = [kind |-> "No index.html found in commit", oid |-> 0]
          /\ currentIndex' = currentIndex
          /\ backDisabled' = (currentIndex >= Len(log) - 1 /\ (fetchFailed \/ ~loadingMore))
          /\ nextDisabled' = (currentIndex <= 0)
          /\ errors' = errors]_vars

C8_Witness ==
  /\ ev.op = "readIndexFileThrows"
  /\ content = NoIndexHtml
  /\ currentIndex >= 1
  /\ ~nextDisabled

\* C9: in every reachable state currentIndex >= 0 and, whenever log is
\* non-empty, currentIndex < log.length.
C9_IndexInsideLog ==
  /\ currentIndex >= 0
  /\ log # <<>> => currentIndex < Len(log)

\* C10: at most one prefetch is in flight at any time.
C10_OnePrefetchInFlight == Cardinality(InFlight) <= 1

C10_Witness ==
  /\ ev.op = "showOlder"
  /\ Len(prefetches) = 1 /\ prefetches[1].pc = "log"
  /\ isFetching

\* C11: fetchFailed is absorbing: once a prefetch has set it, it is never set
\* back to false, and no later showOlder or prefetchMore call issues another
\* git.fetch or changes log.
C11_FetchFailedAbsorbing ==
  [][fetchFailed =>
       /\ fetchFailed'
       /\ \A i \in 1..Len(prefetches') : prefetches'[i].pc # "fetch"
       /\ Len(prefetches') <= Len(prefetches)
       /\ ev'.op \in {"showOlder", "showOlderResumes", "prefetchFetchResolves",
                      "prefetchFetchThrows", "prefetchLogResolves",
                      "prefetchLogThrows"} => log' = log]_vars

C11_Witness ==
  /\ fetchFailed
  /\ ev.op = "showOlder"
  /\ Initialised
  /\ Len(log) - currentIndex - 1 <= fetchThreshold
  /\ prefetches = <<>>

\* C12: a successful prefetch requests depth log.length + fetchStep, with
\* log.length read when the prefetch starts, replaces log with the result of
\* git.log at that same depth, keeps fetchFailed false and clears the status
\* message; prefetchMore itself does not change currentIndex.
C12_SuccessfulPrefetch ==
  [][/\ (ev'.op = "showOlder" /\ Len(prefetches') > Len(prefetches)) =>
          prefetches'[Len(prefetches')] =
            [pc |-> "fetch", targetDepth |-> Len(log) + fetchStep]
     /\ ev'.op = "prefetchFetchResolves" =>
          \E i \in 1..Len(prefetches) :
            /\ prefetches[i].pc = "fetch"
            /\ prefetches' = [prefetches EXCEPT ![i].pc = "log"]
            /\ repoDepth' = Max(repoDepth, Min(prefetches[i].targetDepth, RemoteLen))
            /\ UNCHANGED <<log, currentIndex, flags, status>>
     /\ ev'.op = "prefetchLogResolves" =>
          \E i \in 1..Len(prefetches) :
            /\ prefetches[i].pc = "log"
            /\ prefetches' = [prefetches EXCEPT ![i].pc = "settled"]
            /\ log' = [j \in 1..Min(prefetches[i].targetDepth, repoDepth) |-> j]
            /\ ~fetchFailed /\ ~fetchFailed'
            /\ status' = ""
            /\ currentIndex' = currentIndex]_vars

C12_Witness ==
  /\ ev.op = "prefetchLogResolves"
  /\ Initialised
  /\ Len(prefetches) = 1 /\ prefetches[1] = [pc |-> "settled", targetDepth |-> Len(log)]
  /\ Len(log) > initialDepth
  /\ ~fetchFailed /\ status = ""

\* C13: every prefetch that starts eventually ends with isFetching and
\* loadingMore both false, whether git.fetch / git.log succeed or throw, given
\* that each git call eventually settles; the flags are never left at true
\* without a prefetch awaiting a git call.
C13_PrefetchEnds ==
  /\ []((isFetching \/ loadingMore) => InFlight # {})
  /\ (InFlight # {}) ~> (~isFetching /\ ~loadingMore)

C13_Witness ==
  /\ ev.op = "prefetchLogThrows"
  /\ \E i \in 1..Len(prefetches) : prefetches[i].pc = "settled"
  /\ ~isFetching /\ ~loadingMore
  /\ fetchFailed

\* C14: once initialisation has displayed the first commit, whenever no
\* asynchronous operation is pending and no checkout has failed, the Next
\* button is disabled exactly when currentIndex = 0 and the Back button is
\* disabled exactly when currentIndex >= log.length - 1.
C14_ButtonsAtRest ==
  (Initialised /\ Quiescent /\ "displayCommit" \notin errors) =>
    /\ nextDisabled <=> (currentIndex = 0)
    /\ backDisabled <=> (currentIndex >= Len(log) - 1)

C14_Witness ==
  /\ Initialised /\ Quiescent /\ "displayCommit" \notin errors
  /\ ev.op = "readIndexFileResolves"
  /\ currentIndex > 0 /\ currentIndex = Len(log) - 1
  /\ backDisabled /\ ~nextDisabled

\* C15: no prefetch runs against a repository that is still being
\* initialised: while initializeRepo has not yet loaded the log, no
\* prefetchMore call is awaiting git.fetch or git.log, and fetchFailed is not
\* set before the first commit is displayed.
C15_NoPrefetchDuringInit ==
  init.pc \in {"mkdir", "clone", "fetch", "checkout", "getCommits"} =>
    /\ prefetches = <<>>
    /\ ~fetchFailed

\* C16: after any sequence of connectedCallback, adoptedCallback and
\* disconnectedCallback invocations initializeRepo has been started at most
\* once, and whenever the element is connected with its shadow root and
\* #content present the Back and Next click handlers are attached, also after
\* a disconnect followed by a reconnect.
C16_Lifecycle ==
  /\ [][(ev'.op \in {"connectedCallback", "adoptedCallback"} /\ init.pc # "none")
          => init' = init]_vars
  /\ []((inDoc /\ hasContent) => attached)

====
